---- MODULE Spec2Model ----
(***************************************************************************)
(* The cascading admission-control pipeline of challenge4:                 *)
(*   Caller Service (LoadDriver)  -> POST /forward ->                      *)
(*   Throttle Service (Gate)      -> POST /echo    ->                      *)
(*   Echo Service (Sink)                                                   *)
(* Sources: src/challenge4/caller-service/src/index.ts and                 *)
(* src/challenge4/throttle-service/src/index.ts (which holds the Throttle  *)
(* Service, lines 183-427, and the Echo Service, lines 429-596).           *)
(*                                                                         *)
(* Each service is a single-threaded Node.js process: a handler runs       *)
(* without interruption up to its next await, so every action below is one *)
(* such uninterrupted stretch of code.  The three processes, the network   *)
(* between them and the clock interleave freely.                           *)
(***************************************************************************)
EXTENDS Integers, Sequences, FiniteSets, TLC

(***************************************************************************)
(* Bounds of the model.                                                    *)
(***************************************************************************)
\* number of calls the Caller Service issues (ids 1..NumReq)
NumReq == 3
\* how often the clock is observed to advance
MaxTicks == 2
\* Throttler.maxCallsPerMinute (4096 in the source), scaled down
GateCapacity == 2
\* RateLimiter.maxCallsPerMinute (512 in the source), scaled down
SinkCapacity == 1
\* main issues 16^k calls in minute k (16 in the source), scaled down
EpochBase == 2
\* the number of minutes main runs through (4 in the source), scaled down
NumEpochs == 2
\* httpAgent's maxSockets (50 in the source), scaled down
MaxSockets == 2
\* maxCallsPerMinute of a Throttler that is called directly
CounterCapacity == 3

(***************************************************************************)
(* Program constants.                                                      *)
(***************************************************************************)
\* now - 60000: the length of the sliding window in milliseconds
WindowMs == 60000

\* the amount by which Date.now() is seen to advance between two steps: half
\* a window, so that an entry recorded at t0 is looked at again at
\* t0 + 30000 (inside the window) and at t0 + 60000 (exactly one window later)
ClockStep == WindowMs \div 2

Ids == 1..NumReq

None == [kind |-> "none"]

(***************************************************************************)
(* State.                                                                  *)
(***************************************************************************)
VARIABLES
    now,          \* Date.now(), one clock for the three local processes
    callId,       \* caller-service: the next id makeCalls passes to makeCall
    callerLog,    \* caller-service: per call id, the records makeCall wrote
    driver,       \* caller-service: the run of main, its calls counted
    forwardReq,   \* the POST /forward requests on the wire to the Gate
    throttler,    \* throttle-service: the Throttler instance
    receivedData, \* throttle-service: the handler's const receivedData, per id
    pc,           \* throttle-service: position of the /forward handler per id
    canForward,   \* throttle-service: what throttler.canForward() resolved to
    throttleLog,  \* throttle-service: the counts of the last "Received" log line
    post,         \* throttle-service: what axiosInstance.post(...) settled to
    forwardRes,   \* the response the /forward handler sent, per id
    resCount,     \* how many responses the /forward handler sent, per id
    echoReq,      \* the POST /echo requests on the wire to the Sink
    rateLimiter,  \* echo-service: the RateLimiter instance
    echoRes,      \* the response the /echo handler sent, per id
    gateHist,     \* history: every decision of Throttler.canForward, in order
    sinkHist      \* history: every decision of RateLimiter.isAllowed, in order

vars == <<now, callId, callerLog, driver, forwardReq, throttler, receivedData,
          pc, canForward, throttleLog, post, forwardRes, resCount, echoReq,
          rateLimiter, echoRes,
          gateHist, sinkHist>>

callerVars == <<callId, callerLog, driver>>
gateVars == <<throttler, receivedData, pc, canForward, throttleLog, post, forwardRes,
              resCount>>
sinkVars == <<rateLimiter, echoRes>>
histVars == <<gateHist, sinkHist>>
clockVars == <<now>>

(***************************************************************************)
(* Helpers.                                                                *)
(***************************************************************************)
Max(a, b) == IF a >= b THEN a ELSE b
Min(a, b) == IF a <= b THEN a ELSE b

\* a filter that also keeps an entry that is exactly one minute old
KeepInclusive(timestamp, oneMinuteAgo) == timestamp >= oneMinuteAgo

\* a filter that looks back half a minute only
KeepHalfMinute(timestamp, oneMinuteAgo) == timestamp > oneMinuteAgo + WindowMs \div 2

\* a filter that looks back two minutes
KeepTwoMinutes(timestamp, oneMinuteAgo) == timestamp > oneMinuteAgo - WindowMs

\* calls.filter((timestamp) => timestamp > oneMinuteAgo)
Keep(timestamp, oneMinuteAgo) == timestamp > oneMinuteAgo

Filter(calls, t) ==
    LET oneMinuteAgo == t - WindowMs
        Test(timestamp) == Keep(timestamp, oneMinuteAgo)
    IN SelectSeq(calls, Test)

\* a limit check that never hands out the last slot
UnderLimitLeavesOne(calls, maxCallsPerMinute) == Len(calls) + 1 < maxCallsPerMinute

\* a limit check that is off by one: <= instead of <
UnderLimitOffByOne(calls, maxCallsPerMinute) == Len(calls) <= maxCallsPerMinute

\* if (this.calls.length < this.maxCallsPerMinute)
UnderLimit(calls, maxCallsPerMinute) == Len(calls) < maxCallsPerMinute

\* getCurrentCount(): prunes this.calls, returns the length
GetCurrentCount(calls, t) == Len(Filter(calls, t))

\* getRemainingCapacity(): Math.max(0, maxCallsPerMinute - getCurrentCount())
GetRemainingCapacity(calls, maxCallsPerMinute, t) ==
    Max(0, maxCallsPerMinute - GetCurrentCount(calls, t))

\* a call body whose data is the id padded with a zero
CallDataPadded(id) == [id |-> id, data |-> "0" \o ToString(id)]

\* makeCall: const callData = { id: callId, data: callId.toString() }
CallData(id) == [id |-> id, data |-> ToString(id)]

\* the message of the error axios rejects a non-2xx response with
StatusError(status) == "Request failed with status code " \o ToString(status)

(***************************************************************************)
(* Initial state: the three services have just started.                    *)
(***************************************************************************)
Init ==
    /\ now = 0
    /\ callId = 1
    /\ callerLog = [i \in Ids |-> <<>>]
    /\ driver = [phase |-> "start", minute |-> 1, callId |-> 1, minuteStart |-> 0,
                 wakeAt |-> 0, open |-> 0, queued |-> 0, issued |-> <<>>,
                 received |-> 0, errors |-> 0]
    /\ forwardReq = {}
    /\ throttler = [calls |-> <<>>, throttledCount |-> 0, processing |-> <<>>]
    /\ receivedData = [i \in Ids |-> None]
    /\ pc = [i \in Ids |-> "idle"]
    /\ canForward = [i \in Ids |-> None]
    /\ throttleLog = None
    /\ post = [i \in Ids |-> None]
    /\ forwardRes = [i \in Ids |-> None]
    /\ resCount = [i \in Ids |-> 0]
    /\ echoReq = {}
    /\ rateLimiter = [calls |-> <<>>]
    /\ echoRes = [i \in Ids |-> None]
    /\ gateHist = <<>>
    /\ sinkHist = <<>>

(***************************************************************************)
(* The clock.                                                              *)
(***************************************************************************)
Tick ==
    /\ now < MaxTicks * ClockStep
    /\ now' = now + ClockStep
    /\ UNCHANGED <<callerVars, forwardReq, gateVars, echoReq, sinkVars, histVars>>

(***************************************************************************)
(* Caller Service.                                                         *)
(***************************************************************************)
\* makeCalls' loop body: makeCall(callId) up to its await of the POST.
\* It writes the "Calling" record and puts the request on the wire.
MakeCall ==
    /\ callId <= NumReq
    /\ callerLog' = [callerLog EXCEPT ![callId] =
                        Append(@, [kind |-> "Calling", id |-> callId,
                                   data |-> CallData(callId).data])]
    /\ forwardReq' = forwardReq \cup {CallData(callId)}
    /\ callId' = callId + 1
    /\ UNCHANGED <<clockVars, driver, gateVars, echoReq, sinkVars, histVars>>

Calling(id) == Len(callerLog[id]) = 1

\* an axios configured with validateStatus: () => true resolves with any
\* response
SettleAnyStatus(response) ==
    [kind |-> "response", status |-> response.status, data |-> response.data]

\* axios settles a POST: it resolves with the response when its status is
\* 2xx and rejects with an error that carries the response otherwise
Settle(response) ==
    IF response.status >= 200 /\ response.status < 300
    THEN [kind |-> "response", status |-> response.status, data |-> response.data]
    ELSE [kind |-> "error", message |-> StatusError(response.status),
          status |-> response.status]

\* axios rejects with an error that carries no response (status 0 here)
NoResponse(errorMessage) ==
    [kind |-> "error", message |-> errorMessage, status |-> 0]

\* makeCall's try branch writes "Received response", its catch branch "Error"
CallerRecord(id, settled) ==
    IF settled.kind = "response"
    THEN [kind |-> "Received", id |-> id, response |-> settled.data]
    ELSE [kind |-> "Error", id |-> id, message |-> settled.message]

\* The Gate's answer arrived.
MakeCallReturn(id) ==
    /\ Calling(id)
    /\ forwardRes[id] # None
    /\ callerLog' = [callerLog EXCEPT ![id] =
                        Append(@, CallerRecord(id, Settle(forwardRes[id])))]
    /\ UNCHANGED <<clockVars, callId, driver, forwardReq, gateVars, echoReq, sinkVars,
                   histVars>>

\* No answer: the 10 s timeout of axiosInstance expired.
MakeCallTimeout(id) ==
    /\ Calling(id)
    /\ callerLog' = [callerLog EXCEPT ![id] =
                        Append(@, CallerRecord(id, NoResponse("timeout of 10000ms exceeded")))]
    /\ UNCHANGED <<clockVars, callId, driver, forwardReq, gateVars, echoReq, sinkVars,
                   histVars>>

\* No answer: the connection to the Gate failed, the request never arrives.
MakeCallRefused(id) ==
    /\ Calling(id)
    /\ CallData(id) \in forwardReq
    /\ forwardReq' = forwardReq \ {CallData(id)}
    /\ callerLog' = [callerLog EXCEPT ![id] =
                        Append(@, CallerRecord(id, NoResponse("connect ECONNREFUSED")))]
    /\ UNCHANGED <<clockVars, callId, driver, gateVars, echoReq, sinkVars, histVars>>

(***************************************************************************)
(* Throttle Service.                                                       *)
(***************************************************************************)
\* app.post("/forward"), up to `await throttler.canForward()`: canForward()
\* chains its critical section behind this.processing and returns.
ForwardReceive(body) ==
    /\ body \in forwardReq
    /\ forwardReq' = forwardReq \ {body}
    /\ receivedData' = [receivedData EXCEPT ![body.id] = body]
    /\ pc' = [pc EXCEPT ![body.id] = "lock"]
    /\ throttler' = [throttler EXCEPT !.processing = Append(@, body.id)]
    /\ UNCHANGED <<clockVars, callerVars, canForward, throttleLog, post, forwardRes,
                   resCount, echoReq, sinkVars, histVars>>

\* an admission that records its timestamp in front of the kept ones
AdmitInFront(calls, maxCallsPerMinute, t) ==
    LET kept == Filter(calls, t)
    IN IF UnderLimit(kept, maxCallsPerMinute)
       THEN [calls |-> <<t>> \o kept, result |-> TRUE]
       ELSE [calls |-> kept, result |-> FALSE]

\* a check that makes room on rejecting: it drops the oldest entry
AdmitEvictOldest(calls, maxCallsPerMinute, t) ==
    LET kept == Filter(calls, t)
    IN IF UnderLimit(kept, maxCallsPerMinute)
       THEN [calls |-> Append(kept, t), result |-> TRUE]
       ELSE [calls |-> Tail(kept), result |-> FALSE]

\* The check shared by Throttler.canForward and RateLimiter.isAllowed:
\* filter, then push(now) and true when under the limit, false otherwise.
Admit(calls, maxCallsPerMinute, t) ==
    LET kept == Filter(calls, t)
    IN IF UnderLimit(kept, maxCallsPerMinute)
       THEN [calls |-> Append(kept, t), result |-> TRUE]
       ELSE [calls |-> kept, result |-> FALSE]

\* a count that goes up on every call, admitted or not
ThrottledEveryCall(throttledCount, result) == throttledCount + 1

\* this.throttledCount++ on the rejecting path only
Throttled(throttledCount, result) ==
    IF result THEN throttledCount ELSE throttledCount + 1

\* The callback canForward() passed to this.processing.then: the callbacks
\* run one at a time, in the order in which they were chained.
\* a critical section that does not settle while the window is full
CanForwardAwaitsSlot ==
    /\ throttler.processing # <<>>
    /\ UnderLimit(Filter(throttler.calls, now), GateCapacity)
    /\ LET id == Head(throttler.processing)
           r == Admit(throttler.calls, GateCapacity, now)
       IN /\ throttler' = [calls |-> r.calls,
                           throttledCount |-> Throttled(throttler.throttledCount, r.result),
                           processing |-> Tail(throttler.processing)]
          /\ canForward' = [canForward EXCEPT ![id] =
                                [kind |-> "bool", value |-> r.result, at |-> now]]
          /\ pc' = [pc EXCEPT ![id] = "decided"]
          /\ gateHist' = Append(gateHist, [t |-> now, ok |-> r.result])
    /\ UNCHANGED <<clockVars, callerVars, forwardReq, receivedData, throttleLog, post,
                   forwardRes, resCount, echoReq, sinkVars, sinkHist>>

\* a lock that runs the critical section of the newest waiting call first
CanForwardNewestFirst ==
    /\ throttler.processing # <<>>
    /\ LET n == Len(throttler.processing)
           id == throttler.processing[n]
           r == Admit(throttler.calls, GateCapacity, now)
       IN /\ throttler' = [calls |-> r.calls,
                           throttledCount |-> Throttled(throttler.throttledCount, r.result),
                           processing |-> SubSeq(throttler.processing, 1, n - 1)]
          /\ canForward' = [canForward EXCEPT ![id] =
                                [kind |-> "bool", value |-> r.result, at |-> now]]
          /\ pc' = [pc EXCEPT ![id] = "decided"]
          /\ gateHist' = Append(gateHist, [t |-> now, ok |-> r.result])
    /\ UNCHANGED <<clockVars, callerVars, forwardReq, receivedData, throttleLog, post,
                   forwardRes, resCount, echoReq, sinkVars, sinkHist>>

\* a critical section that starts only when no forward is awaited
CanForwardHoldsLock ==
    /\ throttler.processing # <<>>
    /\ \A other \in Ids : pc[other] # "post"
    /\ LET id == Head(throttler.processing)
           r == Admit(throttler.calls, GateCapacity, now)
       IN /\ throttler' = [calls |-> r.calls,
                           throttledCount |-> Throttled(throttler.throttledCount, r.result),
                           processing |-> Tail(throttler.processing)]
          /\ canForward' = [canForward EXCEPT ![id] =
                                [kind |-> "bool", value |-> r.result, at |-> now]]
          /\ pc' = [pc EXCEPT ![id] = "decided"]
          /\ gateHist' = Append(gateHist, [t |-> now, ok |-> r.result])
    /\ UNCHANGED <<clockVars, callerVars, forwardReq, receivedData, throttleLog, post,
                   forwardRes, resCount, echoReq, sinkVars, sinkHist>>

CanForward ==
    /\ throttler.processing # <<>>
    /\ LET id == Head(throttler.processing)
           r == Admit(throttler.calls, GateCapacity, now)
       IN /\ throttler' = [calls |-> r.calls,
                           throttledCount |-> Throttled(throttler.throttledCount, r.result),
                           processing |-> Tail(throttler.processing)]
          /\ canForward' = [canForward EXCEPT ![id] =
                                [kind |-> "bool", value |-> r.result, at |-> now]]
          /\ pc' = [pc EXCEPT ![id] = "decided"]
          /\ gateHist' = Append(gateHist, [t |-> now, ok |-> r.result])
    /\ UNCHANGED <<clockVars, callerVars, forwardReq, receivedData, throttleLog, post,
                   forwardRes, resCount, echoReq, sinkVars, sinkHist>>

\* res.status(429).json({ error, message, throttledCount })
\* a 429 body with the count as it was before the request's own rejection
ThrottledResponseBeforeOwn(throttledCount) ==
    [status |-> 429,
     data |-> [error |-> "Throttled",
               message |-> "Request rate exceeds 4,096 calls per minute",
               throttledCount |-> throttledCount - 1]]

ThrottledResponse(throttledCount) ==
    [status |-> 429,
     data |-> [error |-> "Throttled",
               message |-> "Request rate exceeds 4,096 calls per minute",
               throttledCount |-> throttledCount]]

\* a handler that forwards whatever canForward() resolved to
ShouldForwardAlways(decision) == TRUE

\* if (!canForward) { ... return res.status(429)... }
ShouldForward(decision) == decision.value

\* logger.log(`... Current calls in last minute: ${currentCount} | Remaining
\* capacity: ${remainingCapacity}`), both read from the counter at the time
\* of the log call
ReceivedLog(calls, maxCallsPerMinute, t) ==
    [currentCount |-> GetCurrentCount(calls, t),
     remainingCapacity |-> GetRemainingCapacity(calls, maxCallsPerMinute, t)]

\* The /forward handler after the await: it reads the counts (pruning the
\* calls) and either answers 429 or starts the POST to /echo.
ForwardDecide(id) ==
    /\ pc[id] = "decided"
    /\ throttler' = [throttler EXCEPT !.calls = Filter(@, now)]
    /\ throttleLog' = ReceivedLog(throttler.calls, GateCapacity, now)
    /\ IF ~ShouldForward(canForward[id])
       THEN /\ forwardRes' = [forwardRes EXCEPT ![id] =
                                 ThrottledResponse(throttler.throttledCount)]
            /\ resCount' = [resCount EXCEPT ![id] = @ + 1]
            /\ pc' = [pc EXCEPT ![id] = "done"]
            /\ UNCHANGED echoReq
       ELSE /\ echoReq' = echoReq \cup {receivedData[id]}
            /\ pc' = [pc EXCEPT ![id] = "post"]
            /\ UNCHANGED <<forwardRes, resCount>>
    /\ UNCHANGED <<clockVars, callerVars, forwardReq, receivedData, canForward, post,
                   sinkVars, histVars>>

\* res.status(500).json({ error, message, requestId })
ForwardFailed(requestId, errorMessage) ==
    [status |-> 500,
     data |-> [error |-> "Forwarding failed", message |-> errorMessage,
               requestId |-> requestId]]

\* try { ... res.json(echoResponse.data) } catch (error) { ... res.status(500) }
ForwardResponse(requestId, settled) ==
    IF settled.kind = "response"
    THEN [status |-> 200, data |-> settled.data]
    ELSE ForwardFailed(requestId, settled.message)

\* The handler after `await axiosInstance.post(...)` settled.
Respond(id, settled) ==
    /\ post' = [post EXCEPT ![id] = settled]
    /\ forwardRes' = [forwardRes EXCEPT ![id] =
                         ForwardResponse(receivedData[id].id, settled)]
    /\ resCount' = [resCount EXCEPT ![id] = @ + 1]
    /\ pc' = [pc EXCEPT ![id] = "done"]

\* The Sink's answer arrived.
ForwardReturn(id) ==
    /\ pc[id] = "post"
    /\ echoRes[id] # None
    /\ Respond(id, Settle(echoRes[id]))
    /\ UNCHANGED <<clockVars, callerVars, forwardReq, throttler, receivedData,
                   canForward, throttleLog, echoReq, sinkVars, histVars>>

\* a handler that gives the admitted slot back when the forward timed out
\* a handler that posts the request again when the timeout expired
ForwardTimeoutRetries(id) ==
    /\ pc[id] = "post"
    /\ post[id] = None
    /\ post' = [post EXCEPT ![id] = NoResponse("timeout of 5000ms exceeded")]
    /\ echoReq' = echoReq \cup {receivedData[id]}
    /\ UNCHANGED <<clockVars, callerVars, forwardReq, throttler, receivedData, pc,
                   canForward, throttleLog, forwardRes, resCount, sinkVars, histVars>>

ForwardTimeoutReleasesSlot(id) ==
    /\ pc[id] = "post"
    /\ Respond(id, NoResponse("timeout of 5000ms exceeded"))
    /\ throttler' = [throttler EXCEPT
                         !.calls = SubSeq(@, 1, Len(@) - 1)]
    /\ UNCHANGED <<clockVars, callerVars, forwardReq, receivedData,
                   canForward, throttleLog, echoReq, sinkVars, histVars>>

\* No answer: the 5 s timeout of axiosInstance expired (the request may
\* still reach the Sink, or may have reached it already).
ForwardTimeout(id) ==
    /\ pc[id] = "post"
    /\ Respond(id, NoResponse("timeout of 5000ms exceeded"))
    /\ UNCHANGED <<clockVars, callerVars, forwardReq, throttler, receivedData,
                   canForward, throttleLog, echoReq, sinkVars, histVars>>

\* No answer: the connection to the Sink failed, the request never arrives.
ForwardRefused(id) ==
    /\ pc[id] = "post"
    /\ receivedData[id] \in echoReq
    /\ echoReq' = echoReq \ {receivedData[id]}
    /\ Respond(id, NoResponse("connect ECONNREFUSED"))
    /\ UNCHANGED <<clockVars, callerVars, forwardReq, throttler, receivedData,
                   canForward, throttleLog, sinkVars, histVars>>

\* app.get("/health") of the Throttle Service: its accessors prune the calls.
\* what the Throttle Service's /health would answer with counts read without
\* discarding anything
ThrottleHealthBodyUnpruned ==
    [status |-> "ok", service |-> "Throttle Service",
     currentCalls |-> Len(throttler.calls),
     remainingCapacity |-> Max(0, GateCapacity - Len(throttler.calls)),
     throttledCount |-> throttler.throttledCount,
     maxCallsPerMinute |-> GateCapacity]

\* GET /health of the Throttle Service: the body of res.json(...), as read in
\* the current state (port left out)
ThrottleHealthBody ==
    [status |-> "ok", service |-> "Throttle Service",
     currentCalls |-> GetCurrentCount(throttler.calls, now),
     remainingCapacity |-> GetRemainingCapacity(throttler.calls, GateCapacity, now),
     throttledCount |-> throttler.throttledCount,
     maxCallsPerMinute |-> GateCapacity]

\* a read that forgets every timestamp
ThrottleHealthForgets ==
    /\ throttler' = [throttler EXCEPT !.calls = <<>>]
    /\ UNCHANGED <<clockVars, callerVars, forwardReq, receivedData, pc, canForward,
                   throttleLog, post, forwardRes, resCount, echoReq, sinkVars, histVars>>

\* The two counts of that body are two calls, each with its own Date.now():
\* currentCalls read at t1, remainingCapacity read at t2, t1 <= t2.
ThrottleHealthReads(t1, t2) ==
    [currentCalls |-> GetCurrentCount(throttler.calls, t1),
     remainingCapacity |->
         GetRemainingCapacity(Filter(throttler.calls, t1), GateCapacity, t2)]

\* GET /health of the Throttle Service: what the two reads leave behind
ThrottleHealth ==
    /\ throttler' = [throttler EXCEPT !.calls = Filter(@, now)]
    /\ UNCHANGED <<clockVars, callerVars, forwardReq, receivedData, pc, canForward,
                   throttleLog, post, forwardRes, resCount, echoReq, sinkVars, histVars>>

(***************************************************************************)
(* Echo Service.                                                           *)
(***************************************************************************)
\* a Sink that answers with an envelope around the body
EchoResponseWrapped(body, allowed) ==
    IF allowed
    THEN [status |-> 200, data |-> [message |-> "OK", echo |-> body]]
    ELSE [status |-> 429, data |-> [message |-> "Exceeding Limit"]]

\* res.json(receivedData), or res.status(429).json({ message: "Exceeding Limit" })
EchoResponse(body, allowed) ==
    IF allowed
    THEN [status |-> 200, data |-> body]
    ELSE [status |-> 429, data |-> [message |-> "Exceeding Limit"]]

\* a Sink that decides on the Gate's timestamps instead of its own
EchoSharedCounter(body) ==
    /\ body \in echoReq
    /\ echoReq' = echoReq \ {body}
    /\ LET r == Admit(throttler.calls, SinkCapacity, now)
       IN /\ rateLimiter' = [calls |-> r.calls]
          /\ echoRes' = [echoRes EXCEPT ![body.id] = EchoResponse(body, r.result)]
          /\ sinkHist' = Append(sinkHist, [t |-> now, ok |-> r.result])
    /\ UNCHANGED <<clockVars, callerVars, forwardReq, gateVars, gateHist>>

\* app.post("/echo"): a synchronous handler.  It reads the counts (pruning
\* the calls), then rateLimiter.isAllowed() decides.
Echo(body) ==
    /\ body \in echoReq
    /\ echoReq' = echoReq \ {body}
    /\ LET r == Admit(rateLimiter.calls, SinkCapacity, now)
       IN /\ rateLimiter' = [calls |-> r.calls]
          /\ echoRes' = [echoRes EXCEPT ![body.id] = EchoResponse(body, r.result)]
          /\ sinkHist' = Append(sinkHist, [t |-> now, ok |-> r.result])
    /\ UNCHANGED <<clockVars, callerVars, forwardReq, gateVars, gateHist>>

\* app.get("/health") of the Echo Service.
\* GET /health of the Echo Service: the body of res.json(...), as read in the
\* current state (port left out)
EchoHealthBody ==
    [status |-> "ok", service |-> "Echo Service",
     currentCalls |-> GetCurrentCount(rateLimiter.calls, now),
     remainingCapacity |-> GetRemainingCapacity(rateLimiter.calls, SinkCapacity, now),
     maxCallsPerMinute |-> SinkCapacity]

\* The two counts of that body are two calls, each with its own Date.now():
\* currentCalls read at t1, remainingCapacity read at t2, t1 <= t2.
EchoHealthReads(t1, t2) ==
    [currentCalls |-> GetCurrentCount(rateLimiter.calls, t1),
     remainingCapacity |->
         GetRemainingCapacity(Filter(rateLimiter.calls, t1), SinkCapacity, t2)]

\* GET /health of the Echo Service: what the two reads leave behind
EchoHealth ==
    /\ rateLimiter' = [rateLimiter EXCEPT !.calls = Filter(@, now)]
    /\ UNCHANGED <<clockVars, callerVars, forwardReq, gateVars, echoReq, echoRes,
                   histVars>>

(***************************************************************************)
(* The system.                                                             *)
(***************************************************************************)
Next ==
    \/ Tick
    \/ MakeCall
    \/ \E id \in Ids : MakeCallReturn(id)
    \/ \E id \in Ids : MakeCallTimeout(id)
    \/ \E id \in Ids : MakeCallRefused(id)
    \/ \E body \in forwardReq : ForwardReceive(body)
    \/ CanForward
    \/ \E id \in Ids : ForwardDecide(id)
    \/ \E id \in Ids : ForwardReturn(id)
    \/ \E id \in Ids : ForwardTimeout(id)
    \/ \E id \in Ids : ForwardRefused(id)
    \/ ThrottleHealth
    \/ \E body \in echoReq : Echo(body)
    \/ EchoHealth

Spec == Init /\ [][Next]_vars

\* The steps that can change a counter, a decision or what reaches the Sink.
\* The steps left out (the answers travelling back and the failures of a
\* hop) leave throttler, rateLimiter, canForward, echoRes, gateHist and
\* sinkHist unchanged and enable none of the steps kept: at most they take a
\* request off the wire, which is the same as never delivering it.
NextAdmission ==
    \/ Tick
    \/ MakeCall
    \/ \E body \in forwardReq : ForwardReceive(body)
    \/ CanForward
    \/ \E id \in Ids : ForwardDecide(id)
    \/ ThrottleHealth
    \/ \E body \in echoReq : Echo(body)
    \/ EchoHealth

SpecAdmission == Init /\ [][NextAdmission]_vars

\* One burst inside one window: every step of the relay, with the failures
\* of both hops, while the clock stands still.
NextRelay ==
    \/ MakeCall
    \/ \E id \in Ids : MakeCallReturn(id)
    \/ \E id \in Ids : MakeCallTimeout(id)
    \/ \E id \in Ids : MakeCallRefused(id)
    \/ \E body \in forwardReq : ForwardReceive(body)
    \/ CanForward
    \/ \E id \in Ids : ForwardDecide(id)
    \/ \E id \in Ids : ForwardReturn(id)
    \/ \E id \in Ids : ForwardTimeout(id)
    \/ \E id \in Ids : ForwardRefused(id)
    \/ \E body \in echoReq : Echo(body)

SpecRelay == Init /\ [][NextRelay]_vars

(***************************************************************************)
(* The run of the Caller Service's main.  The calls of a minute are        *)
(* counted, not followed one by one: what the Throttle Service answers to  *)
(* a call, and when, is an input of makeCall.                              *)
(***************************************************************************)
\* the calls of minute k: makeCalls(16, ...), (256, ...), (4096, ...), (65536, ...)
Calls(base, k) == base ^ k
EpochCalls(k) == Calls(EpochBase, k)

\* a main that advances callId by one call too few
NextCallIdOffByOne(id, count) == id + count - 1

\* callId += 16 (256, 4096, 65536)
NextCallId(id, count) == id + count

\* an agent without maxSockets: one socket per request
SocketsUnbounded(count) == count

\* httpAgent hands out at most maxSockets sockets, further requests wait
SocketsFor(count) == Min(count, MaxSockets)

\* a call settled: httpAgent gives its socket to a waiting request, if any
FreeSocket(d) ==
    IF d.queued > 0 THEN [d EXCEPT !.queued = @ - 1] ELSE [d EXCEPT !.open = @ - 1]

\* a makeCall without the catch: the error of the POST rejects its promise
MakeCallRethrows(settled) ==
    IF settled.kind = "error" THEN "rejected" ELSE "fulfilled"

\* makeCall: try { await post; log } catch (error) { log }: both branches
\* return normally, the promise of makeCall is fulfilled
MakeCallPromise(settled) == "fulfilled"

\* a main that waits for the rest of half a minute only
\* a wait of a whole minute whatever the minute took
MinuteWaitAlways(minuteDuration) == WindowMs

MinuteWaitHalf(minuteDuration) == Max(0, WindowMs \div 2 - minuteDuration)

\* const minuteWait = Math.max(0, 60000 - minuteDuration)
MinuteWait(minuteDuration) == Max(0, WindowMs - minuteDuration)

\* "=== Minute k": minuteStart = Date.now(); makeCalls(count, callId) runs its
\* loop, every makeCall up to its await: the agent opens the sockets it may
\* and queues the other requests; then await Promise.all(callPromises)
StartMinute(d, t) ==
    LET count == EpochCalls(d.minute)
    IN [d EXCEPT !.phase = "calls",
                 !.minuteStart = t,
                 !.open = SocketsFor(count),
                 !.queued = count - SocketsFor(count),
                 !.issued = Append(@, [minute |-> d.minute, startId |-> d.callId,
                                       count |-> count, at |-> t])]

\* makeCall after its POST settled: it writes its record; were its promise
\* rejected, Promise.all would reject and main().catch would end the process
Settled(d, settled) ==
    LET freed == FreeSocket(d)
        logged == IF CallerRecord(d.callId, settled).kind = "Received"
                  THEN [freed EXCEPT !.received = @ + 1]
                  ELSE [freed EXCEPT !.errors = @ + 1]
    IN IF MakeCallPromise(settled) = "rejected"
       THEN [logged EXCEPT !.phase = "fatal"]
       ELSE logged

\* the statuses the Throttle Service answers with
GateStatuses == {200, 429, 500}

\* main() is called
Main ==
    /\ driver.phase = "start"
    /\ driver' = StartMinute(driver, now)
    /\ UNCHANGED <<clockVars, callId, callerLog, forwardReq, gateVars, echoReq,
                   sinkVars, histVars>>

\* The Throttle Service answered a call that holds a socket.
CallReturned(status) ==
    /\ driver.phase = "calls"
    /\ driver.open > 0
    /\ driver' = Settled(driver, Settle([status |-> status, data |-> None]))
    /\ UNCHANGED <<clockVars, callId, callerLog, forwardReq, gateVars, echoReq,
                   sinkVars, histVars>>

\* an axiosInstance without timeout
CallNeverTimesOut == FALSE /\ UNCHANGED vars

\* The 10 s timeout of a call that holds a socket expired.
CallTimedOut ==
    /\ driver.phase = "calls"
    /\ driver.open > 0
    /\ driver' = Settled(driver, NoResponse("timeout of 10000ms exceeded"))
    /\ UNCHANGED <<clockVars, callId, callerLog, forwardReq, gateVars, echoReq,
                   sinkVars, histVars>>

\* The connection of a call that holds a socket was refused or reset.
CallRefused ==
    /\ driver.phase = "calls"
    /\ driver.open > 0
    /\ driver' = Settled(driver, NoResponse("connect ECONNREFUSED"))
    /\ UNCHANGED <<clockVars, callId, callerLog, forwardReq, gateVars, echoReq,
                   sinkVars, histVars>>

\* a makeCalls that goes on as soon as no call waits for a socket, whether
\* or not the calls that hold one have completed
MinuteCompletedEarly ==
    /\ driver.phase = "calls"
    /\ driver.queued = 0
    /\ LET d == [driver EXCEPT !.callId = NextCallId(@, EpochCalls(driver.minute))]
           minuteDuration == now - driver.minuteStart
           minuteWait == MinuteWait(minuteDuration)
       IN driver' = IF driver.minute = NumEpochs
                    THEN [d EXCEPT !.phase = "finished"]
                    ELSE IF minuteWait > 0
                    THEN [d EXCEPT !.phase = "wait", !.wakeAt = now + minuteWait]
                    ELSE StartMinute([d EXCEPT !.minute = @ + 1], now)
    /\ UNCHANGED <<clockVars, callId, callerLog, forwardReq, gateVars, echoReq,
                   sinkVars, histVars>>

\* Promise.all resolved: main goes on after `await makeCalls(...)`.  It
\* advances callId and, unless this was the last minute, waits for the rest
\* of the minute; with nothing to wait for it starts the next minute at once.
MinuteCompleted ==
    /\ driver.phase = "calls"
    /\ driver.open = 0
    /\ driver.queued = 0
    /\ LET d == [driver EXCEPT !.callId = NextCallId(@, EpochCalls(driver.minute))]
           minuteDuration == now - driver.minuteStart
           minuteWait == MinuteWait(minuteDuration)
       IN driver' = IF driver.minute = NumEpochs
                    THEN [d EXCEPT !.phase = "finished"]
                    ELSE IF minuteWait > 0
                    THEN [d EXCEPT !.phase = "wait", !.wakeAt = now + minuteWait]
                    ELSE StartMinute([d EXCEPT !.minute = @ + 1], now)
    /\ UNCHANGED <<clockVars, callId, callerLog, forwardReq, gateVars, echoReq,
                   sinkVars, histVars>>

\* setTimeout(resolve, minuteWait) fired, not before minuteWait has passed:
\* main starts the next minute.
WaitElapsed ==
    /\ driver.phase = "wait"
    /\ now' = Max(now, driver.wakeAt)
    /\ driver' = StartMinute([driver EXCEPT !.minute = @ + 1], now')
    /\ UNCHANGED <<callId, callerLog, forwardReq, gateVars, echoReq, sinkVars, histVars>>

NextDriver ==
    \/ Tick
    \/ Main
    \/ \E status \in GateStatuses : CallReturned(status)
    \/ CallTimedOut
    \/ MinuteCompleted
    \/ WaitElapsed

SpecDriver == Init /\ [][NextDriver]_vars

\* The timers of the Caller Service fire and its own code runs; whether the
\* Throttle Service ever answers is left open.
SpecDriverLive ==
    /\ SpecDriver
    /\ WF_vars(Main)
    /\ WF_vars(CallTimedOut)
    /\ WF_vars(MinuteCompleted)
    /\ WF_vars(WaitElapsed)

\* The run of main with calls whose connection may fail, the timers firing.
NextDriverCalls ==
    \/ NextDriver
    \/ CallRefused

SpecDriverCalls ==
    /\ Init /\ [][NextDriverCalls]_vars
    /\ WF_vars(Main)
    /\ WF_vars(CallTimedOut)
    /\ WF_vars(MinuteCompleted)
    /\ WF_vars(WaitElapsed)

(***************************************************************************)
(* A Throttler on its own: canForward() is called directly, a number of    *)
(* times, while time passes.                                               *)
(***************************************************************************)
\* 61 s: a little more than a window
Later == WindowMs + WindowMs \div 60

\* canForward() is called up to this many times
CounterCalls == CounterCapacity + 2

\* throttler.canForward() is called and its callback has run.
CanForwardCall ==
    /\ Len(gateHist) < CounterCalls
    /\ LET r == Admit(throttler.calls, CounterCapacity, now)
       IN /\ throttler' = [throttler EXCEPT
                               !.calls = r.calls,
                               !.throttledCount = Throttled(@, r.result)]
          /\ gateHist' = Append(gateHist, [t |-> now, ok |-> r.result])
    /\ UNCHANGED <<clockVars, callerVars, forwardReq, receivedData, pc, canForward,
                   throttleLog, post, forwardRes, resCount, echoReq, sinkVars, sinkHist>>

\* 61 s pass.
Elapse ==
    /\ now < Later
    /\ now' = now + Later
    /\ UNCHANGED <<callerVars, forwardReq, gateVars, echoReq, sinkVars, histVars>>

NextCounter ==
    \/ Tick
    \/ Elapse
    \/ CanForwardCall

SpecCounter == Init /\ [][NextCounter]_vars

\* The run of main with calls that may take more than a minute.
NextDriverSlow ==
    \/ NextDriver
    \/ Elapse

SpecDriverSlow == Init /\ [][NextDriverSlow]_vars

\* The Gate's side of one burst: the calls arriving, the /forward handler
\* with the failures of its post, and the Sink; what the callers do with the
\* answers is left out.
NextGate ==
    \/ MakeCall
    \/ \E body \in forwardReq : ForwardReceive(body)
    \/ CanForward
    \/ \E id \in Ids : ForwardDecide(id)
    \/ \E id \in Ids : ForwardReturn(id)
    \/ \E id \in Ids : ForwardTimeout(id)
    \/ \E id \in Ids : ForwardRefused(id)
    \/ \E body \in echoReq : Echo(body)

SpecGate == Init /\ [][NextGate]_vars

\* The same with the Gate's event loop running: a promise callback that is
\* ready runs, so the critical section of the first waiting canForward call
\* and the handler's continuation after its await are taken when enabled.
\* Nothing is assumed of the Sink's answers or of the timeouts.
SpecGateLive ==
    /\ SpecGate
    /\ WF_vars(CanForward)
    /\ \A id \in Ids : WF_vars(ForwardDecide(id))

(***************************************************************************)
(* The synchronous Throttler of the first version of the Throttle Service  *)
(* (lines 24-79): the same fields without the promise chain.               *)
(***************************************************************************)
\* new Throttler(): calls = [], throttledCount = 0, maxCallsPerMinute
ThrottlerSync(maxCallsPerMinute) ==
    [calls |-> <<>>, maxCallsPerMinute |-> maxCallsPerMinute, throttledCount |-> 0]

\* canForward(): boolean, called on the Throttler th when Date.now() is t.
\* It filters with timestamp > oneMinuteAgo, pushes now and returns true when
\* calls.length < maxCallsPerMinute, else throttledCount++ and returns false.
CanForwardSync(th, t) ==
    LET oneMinuteAgo == t - WindowMs
        Recent(timestamp) == timestamp > oneMinuteAgo
        calls == SelectSeq(th.calls, Recent)
    IN IF Len(calls) < th.maxCallsPerMinute
       THEN [throttler |-> [th EXCEPT !.calls = Append(calls, t)],
             result |-> TRUE]
       ELSE [throttler |-> [th EXCEPT !.calls = calls,
                                      !.throttledCount = @ + 1],
             result |-> FALSE]

(***************************************************************************)
(* The Throttle Service in the middle of a minute: it has admitted one     *)
(* request of an earlier burst, whose handler has finished, when the calls *)
(* of this burst arrive.                                                   *)
(***************************************************************************)
InitBusy ==
    /\ now = 0
    /\ callId = 1
    /\ callerLog = [i \in Ids |-> <<>>]
    /\ driver = [phase |-> "start", minute |-> 1, callId |-> 1, minuteStart |-> 0,
                 wakeAt |-> 0, open |-> 0, queued |-> 0, issued |-> <<>>,
                 received |-> 0, errors |-> 0]
    /\ forwardReq = {}
    /\ throttler = [calls |-> Admit(<<>>, GateCapacity, 0).calls,
                    throttledCount |-> 0, processing |-> <<>>]
    /\ receivedData = [i \in Ids |-> None]
    /\ pc = [i \in Ids |-> "idle"]
    /\ canForward = [i \in Ids |-> None]
    /\ throttleLog = ReceivedLog(throttler.calls, GateCapacity, 0)
    /\ post = [i \in Ids |-> None]
    /\ forwardRes = [i \in Ids |-> None]
    /\ resCount = [i \in Ids |-> 0]
    /\ echoReq = {}
    /\ rateLimiter = [calls |-> <<>>]
    /\ echoRes = [i \in Ids |-> None]
    /\ gateHist = <<[t |-> 0, ok |-> Admit(<<>>, GateCapacity, 0).result]>>
    /\ sinkHist = <<>>

SpecBusyGate == InitBusy /\ [][NextGate]_vars

(***************************************************************************)
(* The Throttle Service called by any client: the bodies posted to         *)
(* /forward are those of the Caller Service or bodies that lack the data.  *)
(***************************************************************************)
\* the bodies a client may post for the request slot id
ClientBodies(id) == {CallData(id), [id |-> id]}

\* Some client posts body to /forward (no request with that id was posted).
Post(body) ==
    /\ pc[body.id] = "idle"
    /\ \A b \in forwardReq : b.id # body.id
    /\ forwardReq' = forwardReq \cup {body}
    /\ UNCHANGED <<clockVars, callerVars, gateVars, echoReq, sinkVars, histVars>>

NextClient ==
    \/ \E id \in Ids : \E body \in ClientBodies(id) : Post(body)
    \/ \E body \in forwardReq : ForwardReceive(body)
    \/ CanForward
    \/ \E id \in Ids : ForwardDecide(id)
    \/ \E id \in Ids : ForwardReturn(id)
    \/ \E body \in echoReq : Echo(body)

SpecClient == Init /\ [][NextClient]_vars

(***************************************************************************)
(* Properties.                                                             *)
(* gateHist and sinkHist hold, in the order of the decisions, the time and *)
(* the result of every admission call on the Gate's and the Sink's         *)
(* counter.                                                                *)
(***************************************************************************)
\* the instants of the model up to now
Instants == {k * ClockStep : k \in 0..(now \div ClockStep)}

\* positions of the admissions in a history
Admissions(h) == {k \in 1..Len(h) : h[k].ok}
Rejections(h) == {k \in 1..Len(h) : ~h[k].ok}

\* the admissions of h whose timestamp lies in the window that ends at t,
\* i.e. that are less than WindowMs old at t
InWindow(h, t) == {k \in Admissions(h) : h[k].t <= t /\ t - h[k].t < WindowMs}

\* Calls i..j of history h are a burst of r + N calls, N >= 0, on a counter
\* with r free slots whose timestamps all fall in the window current at call
\* i: what the counter retained at call i is still retained at call j, and
\* call j is less than a window after call i.  Then exactly r are admitted
\* and exactly N rejected.
BurstExact(h, capacity) ==
    \A i \in 1..Len(h) : \A j \in i..Len(h) :
        LET retained == {k \in InWindow(h, h[i].t) : k < i}
            r == capacity - Cardinality(retained)
            n == j - i + 1
            oneWindow == /\ h[j].t - h[i].t < WindowMs
                         /\ \A k \in retained : h[j].t - h[k].t < WindowMs
        IN (oneWindow /\ n >= r) =>
               /\ Cardinality(Admissions(h) \cap (i..j)) = r
               /\ Cardinality(Rejections(h) \cap (i..j)) = n - r

\* C1: on one counter with r free slots in its current window, r + N
\* concurrent admission calls with timestamps in that window yield exactly r
\* admissions and exactly N rejections, in every interleaving; with one free
\* slot and two concurrent requests exactly one is admitted.
C1_ExactAdmissions ==
    /\ BurstExact(gateHist, GateCapacity)
    /\ BurstExact(sinkHist, SinkCapacity)

\* C1 witness: on the Gate, GateCapacity + 1 calls were decided at the same
\* instant, the last two with one slot left: one admitted, one rejected; on
\* the Sink two calls that arrived at the same instant met its last slot:
\* one admitted, one rejected.
C1_Witness ==
    /\ \E a \in Ids : \E b \in Ids \ {a} :
          /\ canForward[a] # None /\ canForward[b] # None
          /\ canForward[a].value /\ ~canForward[b].value
          /\ canForward[a].at = canForward[b].at
    /\ Len(gateHist) = GateCapacity + 1
    /\ gateHist[GateCapacity].ok /\ ~gateHist[GateCapacity + 1].ok
    /\ Len(sinkHist) >= 2
    /\ \E i \in 1..(Len(sinkHist) - 1) :
          /\ sinkHist[i].ok /\ ~sinkHist[i + 1].ok
          /\ sinkHist[i].t = sinkHist[i + 1].t

\* C2: at every instant t the number of admissions of a counter whose
\* timestamp lies in the trailing window that ends at t (less than 60000 ms
\* old at t) never exceeds the counter's capacity.
C2_WindowNeverExceedsCapacity ==
    \A t \in Instants :
        /\ Cardinality(InWindow(gateHist, t)) <= GateCapacity
        /\ Cardinality(InWindow(sinkHist, t)) <= SinkCapacity

\* C2 witness: the window slid: the Gate admitted more calls than its
\* capacity in total, and the Sink too, each with a full window.
C2_Witness ==
    /\ Cardinality(Admissions(gateHist)) > GateCapacity
    /\ Cardinality(InWindow(gateHist, now)) = GateCapacity
    /\ Cardinality(Admissions(sinkHist)) > SinkCapacity
    /\ Cardinality(InWindow(sinkHist, now)) = SinkCapacity

\* the requests whose /forward handler started the POST to the Sink
Forwards == {id \in Ids : pc[id] = "post" \/ post[id] # None}

\* the forwards the Gate decided on inside the window that ends at t
ForwardsDecidedInWindow(t) ==
    {id \in Forwards : canForward[id].at <= t /\ t - canForward[id].at < WindowMs}

\* the requests the Sink received inside the window that ends at t
ArrivalsInWindow(t) ==
    {k \in 1..Len(sinkHist) : sinkHist[k].t <= t /\ t - sinkHist[k].t < WindowMs}

\* C3 as stated: in any trailing 60-second interval at most GateCapacity
\* forwarded requests reach the Sink, counting each forward at the time the
\* Sink receives it, whatever the delay between decision and forward.
C3_Original_ArrivalsAtSinkBounded ==
    \A t \in Instants : Cardinality(ArrivalsInWindow(t)) <= GateCapacity

\* C3 amended: in any trailing 60-second interval the Gate forwards at most
\* GateCapacity requests, counting each forward at the time of the Gate's
\* admission decision, and the Sink receives only such forwards.
C3_ForwardsBoundedAtDecision ==
    /\ \A t \in Instants : Cardinality(ForwardsDecidedInWindow(t)) <= GateCapacity
    /\ Len(sinkHist) <= Cardinality(Forwards)

\* C3 witness: delayed forwards of an earlier window and a forward of the
\* current window have all reached the Sink within the last 60 seconds, more
\* than GateCapacity of them, while the Gate decided at most GateCapacity of
\* them in that window.
C3_Witness ==
    /\ Cardinality(ArrivalsInWindow(now)) > GateCapacity
    /\ Cardinality(ForwardsDecidedInWindow(now)) <= GateCapacity
    /\ Cardinality(Forwards) > GateCapacity

\* a step in which Throttler.canForward, resp. RateLimiter.isAllowed, decided
GateCall == Len(gateHist') = Len(gateHist) + 1
SinkCall == Len(sinkHist') = Len(sinkHist) + 1
Last(h) == h[Len(h)]

\* the rejected count a counter object keeps (none kept reads as 0)
KeepsRejectedCount(counter) == "throttledCount" \in DOMAIN counter
RejectedCountOf(counter) ==
    IF KeepsRejectedCount(counter) THEN counter.throttledCount ELSE 0

\* what is left of calls after discarding the timestamps older than limit
NotOlderThan(calls, limit) ==
    LET Test(timestamp) == ~(timestamp < limit) IN SelectSeq(calls, Test)
\* what is left of calls after discarding the timestamps not younger than limit
YoungerThan(calls, limit) ==
    LET Test(timestamp) == timestamp > limit IN SelectSeq(calls, Test)

\* the effect of one admission call that decided ok at time now, given what
\* the discarding left
Decided(before, after, kept, capacity, ok) ==
    /\ ok = (Len(kept) < capacity)
    /\ after = IF ok THEN Append(kept, now) ELSE kept

C5_RejectionLeavesTimestamps ==
    [][ /\ (GateCall /\ ~Last(gateHist').ok) =>
               /\ throttler'.calls = throttler.calls
               /\ throttler'.throttledCount = throttler.throttledCount + 1
        /\ (SinkCall /\ ~Last(sinkHist').ok) =>
               rateLimiter' = rateLimiter
      ]_vars

\* C5 witness: each counter has rejected a call while its window was full.
C5_Witness ==
    /\ \E k \in Rejections(gateHist) :
          Cardinality(InWindow(gateHist, gateHist[k].t)) = GateCapacity
    /\ \E k \in Rejections(sinkHist) :
          Cardinality(InWindow(sinkHist, sinkHist[k].t)) = SinkCapacity
    /\ Len(throttler.calls) = GateCapacity
    /\ Len(rateLimiter.calls) = SinkCapacity

GateDecided(id) == canForward[id] # None
GateAdmitted(id) == GateDecided(id) /\ canForward[id].value
GateRejected(id) == GateDecided(id) /\ ~canForward[id].value
OnWireToSink(id) == \E body \in echoReq : body.id = id
SinkDecided(id) == echoRes[id] # None
Answered(id) == forwardRes[id] # None

\* C7: a request the Gate rejected is never sent to the Sink, and the
\* Sink's admission check runs for a request only after the Gate admitted
\* it: a request on the wire to the Sink or decided by the Sink has a Gate
\* admit decision, and a request with a Gate reject decision is neither on
\* that wire nor known to the Sink, and no POST was started for it.
C7_SinkSeesOnlyAdmitted ==
    \A id \in Ids :
        /\ (OnWireToSink(id) \/ SinkDecided(id)) => GateAdmitted(id)
        /\ GateRejected(id) =>
               /\ ~OnWireToSink(id) /\ ~SinkDecided(id)
               /\ pc[id] \in {"decided", "done"}
               /\ post[id] = None

\* C7 witness: one request was rejected by the Gate and answered, another
\* one was admitted by the Gate and then decided by the Sink.
C7_Witness ==
    \E a \in Ids : \E b \in Ids :
        /\ GateRejected(a) /\ pc[a] = "done"
        /\ GateAdmitted(b) /\ SinkDecided(b)

\* C8: every request received on POST /forward ends in exactly one terminal
\* state with exactly one response: 429 {error, message, throttledCount} iff
\* the Gate's counter rejected it; 200 with the Sink's echoed body iff the
\* Gate admitted it and the POST to the Sink came back with the Sink's
\* success; 500 {error, message, ...} iff the Gate admitted it and the POST
\* failed; never two answers, and no handler is left short of its answer once
\* its POST has settled.
C8_OneTerminalResponse ==
    \A id \in Ids :
        /\ resCount[id] <= 1
        /\ (resCount[id] = 1) = Answered(id)
        /\ (pc[id] = "done") = Answered(id)
        /\ post[id] # None => Answered(id)
        /\ Answered(id) =>
            /\ forwardRes[id].status \in {200, 429, 500}
            /\ (forwardRes[id].status = 429) = GateRejected(id)
            /\ forwardRes[id].status = 429 =>
                   DOMAIN forwardRes[id].data = {"error", "message", "throttledCount"}
            /\ (forwardRes[id].status = 200) =
                   (GateAdmitted(id) /\ post[id] # None /\ post[id].kind = "response")
            /\ forwardRes[id].status = 200 =>
                   /\ SinkDecided(id) /\ echoRes[id].status = 200
                   /\ forwardRes[id].data = echoRes[id].data
            /\ (forwardRes[id].status = 500) =
                   (GateAdmitted(id) /\ post[id] # None /\ post[id].kind = "error")
            /\ forwardRes[id].status = 500 =>
                   {"error", "message"} \subseteq DOMAIN forwardRes[id].data

\* C8 witness: three requests have ended in the three terminal states.
C8_Witness ==
    \E a \in Ids : \E b \in Ids : \E c \in Ids :
        /\ Answered(a) /\ forwardRes[a].status = 429
        /\ Answered(b) /\ forwardRes[b].status = 200
        /\ Answered(c) /\ forwardRes[c].status = 500

\* the Sink rejected the forward for overload, resp. the forward got no
\* answer from the Sink
SinkRejected(id) == post[id] # None /\ post[id].kind = "error" /\ post[id].status = 429
TransportFailed(id) == post[id] # None /\ post[id].kind = "error" /\ post[id].status = 0
\* makeCall has written the completion record that the Gate's answer led to
Observed(id) ==
    /\ Answered(id)
    /\ Len(callerLog[id]) = 2
    /\ callerLog[id][2] = CallerRecord(id, Settle(forwardRes[id]))

\* C9: capacity rejection and transport failure stay distinguishable up to
\* the LoadDriver's per-call log: for a request the Sink rejected for
\* overload and a request whose forward got no answer from the Sink, the
\* Gate's answers differ, and so do the records makeCall writes for them.
C9_OverloadDistinctFromTransportFailure ==
    \A a \in Ids : \A b \in Ids :
        (SinkRejected(a) /\ TransportFailed(b) /\ Observed(a) /\ Observed(b)) =>
            /\ forwardRes[a].data.message # forwardRes[b].data.message
            /\ <<callerLog[a][2].kind, callerLog[a][2].message>>
                   # <<callerLog[b][2].kind, callerLog[b][2].message>>

\* the three outcomes of a burst
ForwardedSet == {id \in Ids : Answered(id) /\ forwardRes[id].status = 200}
SinkRejectedSet == {id \in Ids : SinkRejected(id)}
GateRejectedSet == {id \in Ids : Answered(id) /\ forwardRes[id].status = 429}
NoTransportFailure == \A id \in Ids : ~TransportFailed(id)

\* C10: when the NumReq requests are driven concurrently through Gate and
\* Sink inside one window without transport failure, at most GateCapacity are
\* admitted by the Gate and at most SinkCapacity of those by the Sink; once
\* all are answered each is exactly one of Forwarded, SinkRejected and
\* GateRejected, and the counts are min(R, Cgate) admitted by the Gate,
\* min(that, Csink) Forwarded, the rest of the admitted SinkRejected, and
\* R - min(R, Cgate) GateRejected, which sum to R.
C10_CascadingBackpressure ==
    /\ Cardinality(Admissions(gateHist)) <= GateCapacity
    /\ Cardinality(Admissions(sinkHist)) <= SinkCapacity
    /\ ((\A id \in Ids : Answered(id)) /\ NoTransportFailure) =>
        LET admitted == Min(NumReq, GateCapacity)
            forwarded == Min(admitted, SinkCapacity)
        IN /\ Cardinality(ForwardedSet) = forwarded
           /\ Cardinality(SinkRejectedSet) = admitted - forwarded
           /\ Cardinality(GateRejectedSet) = NumReq - admitted
           /\ ForwardedSet \cap SinkRejectedSet = {}
           /\ ForwardedSet \cap GateRejectedSet = {}
           /\ SinkRejectedSet \cap GateRejectedSet = {}
           /\ ForwardedSet \cup SinkRejectedSet \cup GateRejectedSet = Ids
           /\ Cardinality(ForwardedSet) + Cardinality(SinkRejectedSet)
                  + Cardinality(GateRejectedSet) = NumReq

\* C10 witness: the whole burst is answered without transport failure and
\* all three outcomes occur.
C10_Witness ==
    /\ \A id \in Ids : Answered(id)
    /\ NoTransportFailure
    /\ ForwardedSet # {} /\ SinkRejectedSet # {} /\ GateRejectedSet # {}

RECURSIVE CallsBefore(_, _)
\* the calls of the minutes before minute k
CallsBefore(base, k) == IF k <= 1 THEN 0 ELSE CallsBefore(base, k - 1) + Calls(base, k - 1)
FirstId(base, k) == CallsBefore(base, k) + 1
LastId(base, k) == CallsBefore(base, k + 1)
TotalCalls == CallsBefore(EpochBase, NumEpochs + 1)
InFlight == driver.open + driver.queued

\* C11: epoch ramp determinism: minute k issues exactly EpochBase^k calls
\* with the ids that follow those of the minutes before, whatever the calls'
\* durations and outcomes; a finished run has issued every minute, TotalCalls
\* calls in all.  For the source's base 16 and 4 minutes these are 16, 256,
\* 4096, 65536 calls with ids 1..16, 17..272, 273..4368, 4369..69904.
C11_EpochRamp ==
    /\ Len(driver.issued) <= NumEpochs
    /\ \A k \in 1..Len(driver.issued) :
           /\ driver.issued[k].minute = k
           /\ driver.issued[k].count = EpochCalls(k)
           /\ driver.issued[k].startId = FirstId(EpochBase, k)
           /\ driver.issued[k].startId + driver.issued[k].count - 1 = LastId(EpochBase, k)
    /\ driver.phase = "finished" =>
           /\ Len(driver.issued) = NumEpochs
           /\ driver.callId - 1 = TotalCalls
    /\ <<Calls(16, 1), Calls(16, 2), Calls(16, 3), Calls(16, 4)>> = <<16, 256, 4096, 65536>>
    /\ <<FirstId(16, 1), LastId(16, 1)>> = <<1, 16>>
    /\ <<FirstId(16, 2), LastId(16, 2)>> = <<17, 272>>
    /\ <<FirstId(16, 3), LastId(16, 3)>> = <<273, 4368>>
    /\ <<FirstId(16, 4), LastId(16, 4)>> = <<4369, 69904>>

\* C11 witness: a finished run that started late, with calls that succeeded
\* and calls that failed.
C11_Witness ==
    /\ driver.phase = "finished"
    /\ driver.issued[1].at > 0
    /\ driver.received > 0
    /\ driver.errors > 0

\* C12: main issues the calls of minute k+1 only when no call of minute k is
\* in flight any more and at least 60 s have passed since minute k started;
\* the calls in flight are always calls of the latest minute only.
C12_EpochsSeparated ==
    /\ [][Len(driver'.issued) > Len(driver.issued) =>
              /\ InFlight = 0
              /\ Len(driver.issued) > 0 =>
                     now' - driver.issued[Len(driver.issued)].at >= WindowMs]_vars
    /\ [](InFlight > 0 =>
              InFlight + driver.received + driver.errors
                  <= CallsBefore(EpochBase, Len(driver.issued) + 1)
              /\ driver.received + driver.errors
                  >= CallsBefore(EpochBase, Len(driver.issued)))

\* C12 witness: the calls of minute 2 are in flight, issued exactly 60 s
\* after minute 1 started although its calls had completed before.
C12_Witness ==
    /\ Len(driver.issued) = 2
    /\ InFlight > 0
    /\ driver.issued[2].at = driver.issued[1].at + WindowMs

\* C13: a failed call is recorded and aborts nothing: main never ends on the
\* fatal path, every call issued is in flight or recorded as received or as
\* error, and a finished run has issued and recorded TotalCalls calls
\* whatever the outcomes were.
C13_FailuresNeverAbort ==
    /\ driver.phase # "fatal"
    /\ InFlight + driver.received + driver.errors
           = CallsBefore(EpochBase, Len(driver.issued) + 1)
    /\ driver.phase = "finished" =>
           /\ Len(driver.issued) = NumEpochs
           /\ driver.received + driver.errors = TotalCalls

\* C13 witness: a run has finished in which every call failed.
C13_Witness ==
    /\ driver.phase = "finished"
    /\ driver.errors = TotalCalls

\* C14: with the timeouts firing, the calls in flight (those waiting for a
\* socket included) all complete even if no answer ever comes, and the run
\* finishes.
C14_RunFinishes ==
    /\ (InFlight > 0) ~> (InFlight = 0)
    /\ (driver.queued > 0) ~> (driver.queued = 0)
    /\ <>(driver.phase = "finished")

\* C14 witness: a run has finished in which calls had waited for a socket
\* and no call was ever answered with success.
C14_Witness ==
    /\ driver.phase = "finished"
    /\ \E k \in 1..Len(driver.issued) : driver.issued[k].count > MaxSockets
    /\ driver.received = 0

ForwardSettles == \E id \in Ids : pc[id] = "post" /\ pc'[id] = "done"

\* C15: the Gate's counter is changed by the admission decision only: no
\* step that ends a forward attempt, whatever its outcome, changes the
\* Throttler; timestamps and throttledCount change in decision steps only;
\* inside one window every admission holds exactly one timestamp, neither
\* released nor counted twice; and the decision of a waiting request is never
\* blocked by what happened to other forwards.
C15_ForwardLeavesGateCounter ==
    /\ [][ForwardSettles => throttler' = throttler]_vars
    /\ [][(throttler'.calls # throttler.calls
            \/ throttler'.throttledCount # throttler.throttledCount) => GateCall]_vars
    /\ [](Len(throttler.calls) = Cardinality(Admissions(gateHist)))
    /\ [](throttler.throttledCount = Cardinality(Rejections(gateHist)))
    /\ [](throttler.processing # <<>> => ENABLED CanForward)

\* C15 witness: one forward got no answer, another was rejected by the
\* Sink, both slots are still taken, and a further request waits for its
\* decision.
C15_Witness ==
    \E a \in Ids : \E b \in Ids : \E c \in Ids :
        /\ TransportFailed(a) /\ Answered(a)
        /\ SinkRejected(b) /\ Answered(b)
        /\ pc[c] = "lock"
        /\ Len(throttler.calls) = GateCapacity

\* C17: echo round trip: a request the Sink admits is answered 200 with the
\* body the Sink received, the Gate passes that body on unchanged, and
\* makeCall receives exactly the {id, data} it sent; a request the Sink
\* rejects is answered 429 with {message: "Exceeding Limit"} and nothing of
\* the request is echoed, neither by the Sink nor by the Gate.
C17_EchoRoundTrip ==
    \A id \in Ids :
        /\ SinkDecided(id) =>
               \/ /\ echoRes[id].status = 200
                  /\ echoRes[id].data = receivedData[id]
                  /\ echoRes[id].data = CallData(id)
               \/ /\ echoRes[id].status = 429
                  /\ echoRes[id].data = [message |-> "Exceeding Limit"]
        /\ (Answered(id) /\ forwardRes[id].status = 200) =>
               forwardRes[id].data = CallData(id)
        /\ (Observed(id) /\ post[id].kind = "response") =>
               callerLog[id][2] = [kind |-> "Received", id |-> id,
                                   response |-> [id |-> id, data |-> callerLog[id][1].data]]
        /\ (Observed(id) /\ SinkRejected(id)) => callerLog[id][2].kind = "Error"

\* C17 witness: one call came back to makeCall with its echo, another one
\* was rejected by the Sink and came back as an error.
C17_Witness ==
    \E a \in Ids : \E b \in Ids :
        /\ Observed(a) /\ post[a].kind = "response"
        /\ Observed(b) /\ SinkRejected(b)

\* C18: the two counters are independent: no step changes both the
\* Throttler and the RateLimiter, a Gate decision leaves the RateLimiter as
\* it is, a Sink decision leaves the Throttler as it is, and the Sink's
\* decision and its new timestamps are a function of its own timestamps and
\* the arrival time alone.
C18_CountersIndependent ==
    [][/\ throttler' # throttler => rateLimiter' = rateLimiter
       /\ GateCall => rateLimiter' = rateLimiter
       /\ SinkCall =>
              LET kept == Filter(rateLimiter.calls, now)
                  ok == Len(kept) < SinkCapacity
              IN /\ throttler' = throttler
                 /\ Last(sinkHist').ok = ok
                 /\ rateLimiter'.calls = IF ok THEN Append(kept, now) ELSE kept]_vars

\* C18 witness: the Gate is full and has rejected a call while the Sink
\* holds fewer timestamps and has rejected a call of its own.
C18_Witness ==
    /\ Len(throttler.calls) = GateCapacity
    /\ throttler.throttledCount > 0
    /\ rateLimiter.calls # <<>>
    /\ Len(rateLimiter.calls) < Len(throttler.calls)
    /\ Rejections(sinkHist) # {}

\* the utilization the k-th Gate decision observed and the one it produced
CountBefore(k) ==
    Cardinality({j \in Admissions(gateHist) :
                     j < k /\ gateHist[k].t - gateHist[j].t < WindowMs})
CountAfter(k) == CountBefore(k) + (IF gateHist[k].ok THEN 1 ELSE 0)
\* the decisions that can be the one of request id: same time, same result
OwnDecisions(id) ==
    {k \in 1..Len(gateHist) :
         gateHist[k].t = canForward[id].at /\ gateHist[k].ok = canForward[id].value}
\* the handler of request id writes its "Received" log line in this step
LogsReceived(id) == pc[id] = "decided" /\ pc'[id] # "decided"

\* no decision was taken at a later time than the one of request id
NoLaterDecision(id) == gateHist[Len(gateHist)].t = canForward[id].at

\* C19: the count the Gate logs for a request is derived from that request's
\* own admission decision: whenever a handler writes its log line and no
\* decision was taken at a later time than its own, the logged count is the
\* utilization its decision observed or the one it produced, also when time
\* has passed between the decision and the log call.
C19_LoggedCountIsDecisionCount ==
    [][\A id \in Ids :
           (LogsReceived(id) /\ NoLaterDecision(id)) =>
               \E k \in OwnDecisions(id) :
                   throttleLog'.currentCount \in {CountBefore(k), CountAfter(k)}]_vars

\* the decisions 1..k were all taken at t = 0
AllAtZero(k) == \A j \in 1..k : gateHist[j].t = 0

\* C20: on a counter with capacity CounterCapacity (3), the first
\* CounterCapacity calls at t = 0 are admitted and a further call at t = 0 is
\* rejected; a call at t = 61000 that follows calls at t = 0 only is admitted,
\* the earlier entries having expired.
C20_ScenarioCapacityThree ==
    \A k \in 1..Len(gateHist) :
        /\ AllAtZero(k) => gateHist[k].ok = (k <= CounterCapacity)
        /\ (k > 1 /\ AllAtZero(k - 1) /\ gateHist[k].t = Later) => gateHist[k].ok
        /\ (k = Len(gateHist) /\ k > 1 /\ AllAtZero(k - 1) /\ gateHist[k].t = Later) =>
               throttler.calls = <<Later>>

\* C20 witness: CounterCapacity calls admitted at t = 0, one more rejected at
\* t = 0, and a call admitted at t = 61000.
C20_Witness ==
    /\ Len(gateHist) = CounterCapacity + 2
    /\ AllAtZero(CounterCapacity + 1)
    /\ \A k \in 1..CounterCapacity : gateHist[k].ok
    /\ ~gateHist[CounterCapacity + 1].ok
    /\ gateHist[CounterCapacity + 2] = [t |-> Later, ok |-> TRUE]
    /\ throttler.throttledCount = 1

\* a body that is not {id, data}
Malformed(body) == DOMAIN body # {"id", "data"}

\* C21: a malformed request to the Gate fails closed: it takes no slot of
\* the Gate's counter, it is not forwarded to the Sink, and it is answered
\* with a 4xx status.
C21_MalformedFailsClosed ==
    \A id \in Ids :
        (receivedData[id] # None /\ Malformed(receivedData[id])) =>
            /\ ~GateAdmitted(id)
            /\ ~OnWireToSink(id)
            /\ ~SinkDecided(id)
            /\ Answered(id) =>
                   (forwardRes[id].status >= 400 /\ forwardRes[id].status < 500)

\* a step in which only a read of GET /health changed a counter
GateHealthStep ==
    /\ throttler'.calls # throttler.calls
    /\ gateHist' = gateHist
    /\ pc' = pc
SinkHealthStep ==
    /\ rateLimiter'.calls # rateLimiter.calls
    /\ sinkHist' = sinkHist

\* the instants from now on at which a later admission call may run
Ahead == {now + k * ClockStep : k \in 0..(MaxTicks + 1)}

\* an admission call on the timestamps after gives, at any later instant,
\* what it gives on the timestamps before
SameOutcome(before, after, capacity) ==
    \A t \in Ahead : Admit(after, capacity, t) = Admit(before, capacity, t)

\* what a health body reports of a counter with the decision history h
Snapshot(body, h, capacity) ==
    /\ body.currentCalls = Cardinality(InWindow(h, now))
    /\ body.remainingCapacity = capacity - Cardinality(InWindow(h, now))
    /\ body.maxCallsPerMinute = capacity

HealthReadsChangeNoOutcome ==
    [][ /\ GateHealthStep =>
            /\ SameOutcome(throttler.calls, throttler'.calls, GateCapacity)
            /\ throttler'.throttledCount = throttler.throttledCount
        /\ SinkHealthStep =>
            SameOutcome(rateLimiter.calls, rateLimiter'.calls, SinkCapacity)
      ]_vars

Digit == <<"0", "1", "2", "3", "4", "5", "6", "7", "8", "9">>
RECURSIVE Decimal(_)
Decimal(n) ==
    IF n < 10 THEN Digit[n + 1] ELSE Decimal(n \div 10) \o Digit[(n % 10) + 1]

\* the ids makeCall has been called with so far
IssuedIds == {id \in Ids : callerLog[id] # <<>>}

\* C23: within one run every issued request has a positive integer id that
\* is greater than every id issued before it; no id is issued twice, the ids
\* start at 1 and have no gaps, and the data of a request is the decimal
\* string of its id.
C23_IdsSequential ==
    /\ [](/\ IssuedIds = 1..(callId - 1)
          /\ \A id \in IssuedIds :
                /\ callerLog[id][1] =
                       [kind |-> "Calling", id |-> id, data |-> Decimal(id)]
                /\ \A k \in 2..Len(callerLog[id]) : callerLog[id][k].kind # "Calling"
          /\ \A body \in forwardReq \cup echoReq :
                /\ body.id \in IssuedIds
                /\ body.data = Decimal(body.id))
    /\ [][ \A id \in Ids :
              (Len(callerLog[id]) = 0 /\ Len(callerLog'[id]) > 0) =>
                  /\ id > 0
                  /\ \A earlier \in IssuedIds : id > earlier
                  /\ IssuedIds' = IssuedIds \cup {id}
                  /\ forwardReq' = forwardReq \cup {[id |-> id, data |-> Decimal(id)]}
         ]_vars

\* C23 witness: every id has been issued, some call has been answered and
\* some body is still on a wire.
C23_Witness ==
    /\ IssuedIds = Ids
    /\ \E id \in Ids : Len(callerLog[id]) = 2
    /\ forwardReq \cup echoReq # {}

\* C24: no hop retries.  The LoadDriver sends each id once, the Gate runs
\* its admission check once per received request and posts an admitted
\* request to the Sink at most once, also after a transport failure or a
\* timeout of that post; a decision, a rejection included, and the response
\* sent are final.
C24_NoRetries ==
    /\ [](/\ Len(gateHist) = Cardinality({id \in Ids : GateDecided(id)})
          /\ Len(sinkHist) = Cardinality({id \in Ids : SinkDecided(id)})
          /\ \A id \in Ids :
                /\ Len(callerLog[id]) <= 2
                /\ resCount[id] <= 1
                /\ (post[id] # None /\ post[id].kind = "error") => pc[id] = "done")
    /\ [][ /\ \A body \in forwardReq' \ forwardReq : callerLog[body.id] = <<>>
           /\ \A body \in echoReq' \ echoReq :
                 /\ pc[body.id] = "decided" /\ pc'[body.id] = "post"
                 /\ GateAdmitted(body.id)
                 /\ ~SinkDecided(body.id)
           /\ \A id \in Ids :
                 /\ GateDecided(id) => canForward'[id] = canForward[id]
                 /\ SinkDecided(id) => echoRes'[id] = echoRes[id]
                 /\ Answered(id) => forwardRes'[id] = forwardRes[id]
                 /\ pc[id] = "done" => pc'[id] = "done"
                 /\ Len(callerLog[id]) = 2 => callerLog'[id] = callerLog[id]
         ]_vars

\* C24 witness: the Gate's post of one request timed out after the Sink had
\* decided it, another request was rejected by the Gate and its caller has
\* logged the answer, and a call of the LoadDriver failed.
C24_Witness ==
    /\ \E id \in Ids : /\ post[id] # None /\ post[id].kind = "error"
                       /\ SinkDecided(id)
    /\ \E id \in Ids : /\ GateRejected(id) /\ Answered(id)
                       /\ Len(callerLog[id]) = 2
    /\ \E id \in Ids : /\ Len(callerLog[id]) = 2
                       /\ callerLog[id][2].kind = "Error"

\* the requests whose canForward call waits for its critical section
Waiting == {throttler.processing[k] : k \in 1..Len(throttler.processing)}

\* the requests whose post to the Sink has neither been answered nor failed
ForwardPending(id) == pc[id] = "post" /\ post[id] = None

\* C25: the admission check holds no lock across I/O.  A request that waits
\* for its decision gets it whatever becomes of the forwards of other
\* requests, also when those never finish; the critical section of the
\* waiting request can always run; and a request whose forward has started
\* no longer holds or waits for the lock.
C25_DecisionNeverWaitsForForward ==
    /\ \A id \in Ids : (pc[id] = "lock") ~> GateDecided(id)
    /\ [](throttler.processing # <<>> => ENABLED CanForward)
    /\ [](\A id \in Ids :
             /\ pc[id] = "lock" <=> id \in Waiting
             /\ ForwardPending(id) => (GateAdmitted(id) /\ id \notin Waiting))

\* C25 witness: the forward of one request is pending, no answer of the Sink
\* has come, and every other request has its decision, one of them its
\* final answer.
C25_Witness ==
    \E a \in Ids :
        /\ ForwardPending(a)
        /\ ~SinkDecided(a)
        /\ \A b \in Ids \ {a} : GateDecided(b)
        /\ \E b \in Ids \ {a} : GateRejected(b) /\ Answered(b)

\* the requests whose decision is made in this step
DecidedNow == {id \in Ids : canForward[id] = None /\ canForward'[id] # None}

\* C26: the promise-chain lock runs the critical sections one at a time and
\* in the order of the canForward calls: a call joins the end of the queue,
\* a step decides one request only, the one that called first of those
\* waiting, and resolves it with the result of that very critical section;
\* so with exactly one slot free and A ahead of B, A is admitted while B
\* still waits.
C26_LockIsFifo ==
    /\ [][ \A id \in Ids :
              (pc[id] = "idle" /\ pc'[id] # "idle") =>
                  /\ pc'[id] = "lock"
                  /\ throttler'.processing = Append(throttler.processing, id)
                  /\ DecidedNow = {}
         ]_vars
    /\ [][ GateCall =>
              LET first == Head(throttler.processing) IN
              /\ throttler.processing # <<>>
              /\ DecidedNow = {first}
              /\ throttler'.processing = Tail(throttler.processing)
              /\ Len(gateHist') = Len(gateHist) + 1
              /\ canForward'[first].value = Last(gateHist').ok
              /\ canForward'[first].value =
                     (GetCurrentCount(throttler.calls, now) < GateCapacity)
              /\ canForward'[first].value =
                     (Len(throttler'.calls) = Len(Filter(throttler.calls, now)) + 1)
              /\ (/\ GetRemainingCapacity(throttler.calls, GateCapacity, now) = 1
                  /\ Len(throttler.processing) > 1) =>
                     /\ canForward'[first].value
                     /\ \A k \in 2..Len(throttler.processing) :
                            canForward'[throttler.processing[k]] = None
         ]_vars
    /\ [][DecidedNow # {} => GateCall]_vars
    /\ [](\A i \in 1..Len(throttler.processing) :
             /\ canForward[throttler.processing[i]] = None
             /\ \A j \in 1..Len(throttler.processing) :
                    i # j => throttler.processing[i] # throttler.processing[j])

\* C26 witness: every request has been decided, the window is full, a
\* request has been rejected, and an admitted request has its result while
\* its handler has not yet continued.
C26_Witness ==
    /\ Len(throttler.calls) = GateCapacity
    /\ \E a \in Ids : pc[a] = "decided" /\ GateAdmitted(a)
    /\ \E b \in Ids : GateRejected(b)
    /\ Len(gateHist) = NumReq

\* main goes on after the calls of a minute have all completed
CallsCompleted == driver.phase = "calls" /\ driver'.phase # "calls"
MinuteLasted == now - driver.minuteStart

\* C27: when the calls of a minute took 60 s or longer, main starts the next
\* minute in the step in which the last call's completion is noticed, at that
\* very instant; it waits only for a positive time, never for a negative one,
\* and after the last minute it finishes without waiting.
C27_NoWaitAfterSlowMinute ==
    /\ [][ (CallsCompleted /\ driver.minute < NumEpochs
                /\ MinuteLasted >= WindowMs) =>
               /\ now' = now
               /\ driver'.phase = "calls"
               /\ driver'.minute = driver.minute + 1
               /\ driver'.minuteStart = now
               /\ Len(driver'.issued) = Len(driver.issued) + 1
               /\ Last(driver'.issued).at = now
         ]_vars
    /\ [][ (CallsCompleted /\ driver.minute < NumEpochs
                /\ MinuteLasted < WindowMs) =>
               /\ driver'.phase = "wait"
               /\ driver'.wakeAt > now
               /\ driver'.wakeAt = driver.minuteStart + WindowMs
         ]_vars
    /\ [][ (CallsCompleted /\ driver.minute = NumEpochs) =>
               /\ now' = now
               /\ driver'.phase = "finished"
               /\ driver'.issued = driver.issued
         ]_vars
    /\ [](driver.phase = "wait" => driver.minute < NumEpochs)

\* C27 witness: the calls of minute 1 took more than 60 s, minute 2 was
\* started at the instant they completed, and the run has finished.
C27_Witness ==
    /\ driver.phase = "finished"
    /\ Len(driver.issued) = 2
    /\ driver.issued[2].at - driver.issued[1].at > WindowMs
    /\ now = driver.issued[2].at

\* the admissions of h that a decision or read at time t counts: those
\* recorded at a time t0 with t0 > t - 60000
CountedAt(h, t) == {j \in Admissions(h) : h[j].t > t - WindowMs}

\* every decision of h counted exactly the earlier admissions of CountedAt
DecisionsCount(h, capacity) ==
    \A k \in 1..Len(h) :
        h[k].ok = (Cardinality({j \in CountedAt(h, h[k].t) : j < k}) < capacity)

\* all timestamps of calls are counted at time t
AllCounted(calls, t) == \A i \in 1..Len(calls) : calls[i] > t - WindowMs

\* calls is full of timestamps that are exactly 60000 ms old at time t
FullSince(calls, capacity, t) ==
    /\ Len(calls) = capacity
    /\ \A i \in 1..Len(calls) : calls[i] = t - WindowMs

NonDecreasing(calls) ==
    \A i \in 1..Len(calls) : \A j \in 1..Len(calls) : i < j => calls[i] <= calls[j]

\* C29: in every reachable state, whatever the order of the admission calls
\* and of the reads of the handlers and of /health, the timestamps a counter
\* retains are non-decreasing in the order of insertion, none lies in the
\* future, and there are at most as many as the counter's capacity.
C29_TimestampsOrderedAndBounded ==
    /\ NonDecreasing(throttler.calls)
    /\ Len(throttler.calls) <= GateCapacity
    /\ \A i \in 1..Len(throttler.calls) : throttler.calls[i] <= now
    /\ NonDecreasing(rateLimiter.calls)
    /\ Len(rateLimiter.calls) <= SinkCapacity
    /\ \A i \in 1..Len(rateLimiter.calls) : rateLimiter.calls[i] <= now

\* C29 witness: the Gate's counter is full of timestamps of two different
\* instants and has rejected a call; the Sink's counter is full again after
\* its window slid.
C29_Witness ==
    /\ Len(throttler.calls) = GateCapacity
    /\ throttler.calls[1] < throttler.calls[Len(throttler.calls)]
    /\ Len(rateLimiter.calls) = SinkCapacity
    /\ Cardinality(Admissions(sinkHist)) > SinkCapacity
    /\ Rejections(gateHist) # {}

\* The admission calls of history h made alone, one after the other at
\* their times on a counter that starts empty, with no accessor call in
\* between: the timestamps after the first k calls, and the k-th result.
RECURSIVE ReplayCalls(_, _, _)
ReplayCalls(h, k, capacity) ==
    IF k = 0 THEN <<>>
    ELSE Admit(ReplayCalls(h, k - 1, capacity), capacity, h[k].t).calls
ReplayResult(h, k, capacity) ==
    Admit(ReplayCalls(h, k - 1, capacity), capacity, h[k].t).result

\* the counter with timestamps calls has decided as the replay of h does,
\* and will go on doing so
AsReplayed(calls, h, capacity) ==
    /\ \A k \in 1..Len(h) : h[k].ok = ReplayResult(h, k, capacity)
    /\ SameOutcome(ReplayCalls(h, Len(h), capacity), calls, capacity)

\* what was removed from before to get after was expired at time t
OnlyExpiredRemoved(before, after, t) ==
    /\ after = Filter(before, t)
    /\ \A i \in 1..Len(before) :
           before[i] > t - WindowMs => \E j \in 1..Len(after) : after[j] = before[i]

\* C30: the read accessors only prune expired entries.  However many reads
\* the /forward, /echo and /health handlers make between the admission
\* calls, every admission call returns what it returns when the same
\* admission calls are made without any read, the rejected count is the
\* number of rejecting calls, and a step that is not an admission call
\* removes expired timestamps only and leaves the rejected count.
C30_ReadsOnlyPrune ==
    /\ [](/\ AsReplayed(throttler.calls, gateHist, GateCapacity)
          /\ AsReplayed(rateLimiter.calls, sinkHist, SinkCapacity)
          /\ throttler.throttledCount =
                 Cardinality({k \in 1..Len(gateHist) :
                                  ~ReplayResult(gateHist, k, GateCapacity)}))
    /\ [][ /\ (~GateCall /\ throttler'.calls # throttler.calls) =>
                  /\ OnlyExpiredRemoved(throttler.calls, throttler'.calls, now)
                  /\ throttler'.throttledCount = throttler.throttledCount
           /\ (~SinkCall /\ rateLimiter'.calls # rateLimiter.calls) =>
                  OnlyExpiredRemoved(rateLimiter.calls, rateLimiter'.calls, now)
         ]_vars

\* C30 witness: reads alone have emptied both counters (an admission call
\* leaves a counter non-empty), the Gate's after it had been full, and a
\* request still waits for its admission call.
C30_Witness ==
    /\ throttler.calls = <<>>
    /\ Cardinality(Admissions(gateHist)) = GateCapacity
    /\ rateLimiter.calls = <<>>
    /\ Admissions(sinkHist) # {}
    /\ \E id \in Ids : pc[id] = "lock"

\* the clock readings the second read of a snapshot may get when the first
\* got now
SecondRead == {now, now + ClockStep}

\* at time t the count of calls lies in 0..capacity and the remaining
\* capacity is the capacity minus the count, unclamped
CountsInRange(calls, capacity, t) ==
    /\ GetCurrentCount(calls, t) >= 0
    /\ GetCurrentCount(calls, t) <= capacity
    /\ GetRemainingCapacity(calls, capacity, t) = capacity - GetCurrentCount(calls, t)

\* C31 as stated: at every instant on both counters 0 <= getCurrentCount()
\* <= capacity and getRemainingCapacity() = capacity - getCurrentCount(), so
\* the two values of one health snapshot always sum to the capacity.
C31_Original_SnapshotSumsToCapacity ==
    /\ \A t \in SecondRead :
           /\ CountsInRange(throttler.calls, GateCapacity, t)
           /\ CountsInRange(rateLimiter.calls, SinkCapacity, t)
    /\ \A t2 \in SecondRead :
           /\ ThrottleHealthReads(now, t2).currentCalls
                  + ThrottleHealthReads(now, t2).remainingCapacity = GateCapacity
           /\ EchoHealthReads(now, t2).currentCalls
                  + EchoHealthReads(now, t2).remainingCapacity = SinkCapacity

\* C31 amended: at every instant on both counters 0 <= getCurrentCount() <=
\* capacity and getRemainingCapacity() = capacity - getCurrentCount(), the
\* clamp to 0 never taking effect.  The two values of one health snapshot
\* sum to the capacity when both reads get the same clock reading; when the
\* clock moves between them the sum is the capacity plus the number of
\* timestamps that expired in between, at most twice the capacity.
C31_CountsWithinCapacity ==
    /\ \A t \in SecondRead :
           /\ CountsInRange(throttler.calls, GateCapacity, t)
           /\ CountsInRange(rateLimiter.calls, SinkCapacity, t)
    /\ ThrottleHealthBody.currentCalls + ThrottleHealthBody.remainingCapacity
           = GateCapacity
    /\ EchoHealthBody.currentCalls + EchoHealthBody.remainingCapacity = SinkCapacity
    /\ \A t2 \in SecondRead :
           /\ ThrottleHealthReads(now, t2).currentCalls
                  + ThrottleHealthReads(now, t2).remainingCapacity
                  = GateCapacity + GetCurrentCount(throttler.calls, now)
                                 - GetCurrentCount(throttler.calls, t2)
           /\ EchoHealthReads(now, t2).currentCalls
                  + EchoHealthReads(now, t2).remainingCapacity
                  = SinkCapacity + GetCurrentCount(rateLimiter.calls, now)
                                 - GetCurrentCount(rateLimiter.calls, t2)
           /\ ThrottleHealthReads(now, t2).currentCalls
                  + ThrottleHealthReads(now, t2).remainingCapacity <= 2 * GateCapacity
           /\ EchoHealthReads(now, t2).currentCalls
                  + EchoHealthReads(now, t2).remainingCapacity <= 2 * SinkCapacity

\* C31 witness: both counters are full, so that nothing remains, with
\* timestamps that expire before the next clock reading.
C31_Witness ==
    /\ GetCurrentCount(throttler.calls, now) = GateCapacity
    /\ GetCurrentCount(throttler.calls, now + ClockStep) = 0
    /\ GetCurrentCount(rateLimiter.calls, now) = SinkCapacity
    /\ GetCurrentCount(rateLimiter.calls, now + ClockStep) = 0

\* The synchronous Throttler after the first k calls of history h, each
\* made with the clock reading of the k-th decision of h.
RECURSIVE SyncRun(_, _)
SyncRun(h, k) ==
    IF k = 0 THEN ThrottlerSync(GateCapacity)
    ELSE CanForwardSync(SyncRun(h, k - 1), h[k].t).throttler

\* C32: the promise-chained Throttler.canForward is equivalent to the
\* synchronous one.  For the same requests in the same order with the same
\* clock readings, each call of the promise-chained version resolves, for
\* the request that called first, with what the synchronous version returns
\* at that point, and leaves the same timestamps and the same
\* throttledCount; between the calls the two differ at most by timestamps
\* that reads have already discarded and the next call will discard.
C32_SyncAsyncEquivalent ==
    /\ [][ GateCall =>
              LET sync == CanForwardSync(SyncRun(gateHist, Len(gateHist)), now)
              IN /\ DecidedNow = {Head(throttler.processing)}
                 /\ canForward'[Head(throttler.processing)].value = sync.result
                 /\ throttler'.calls = sync.throttler.calls
                 /\ throttler'.throttledCount = sync.throttler.throttledCount
         ]_vars
    /\ [](LET sync == SyncRun(gateHist, Len(gateHist))
          IN /\ throttler.throttledCount = sync.throttledCount
             /\ Filter(throttler.calls, now) = Filter(sync.calls, now)
             /\ \A t \in Ahead :
                    CanForwardSync(sync, t).result
                        = Admit(throttler.calls, GateCapacity, t).result)

\* C32 witness: both versions have admitted up to the capacity and rejected
\* a call at a later clock reading; reads have since emptied the timestamps
\* of the promise-chained Throttler, while the synchronous one, which was
\* not read, still holds them.
C32_Witness ==
    /\ Cardinality(Admissions(gateHist)) = GateCapacity
    /\ \E k \in Rejections(gateHist) : gateHist[k].t > gateHist[1].t
    /\ throttler.calls = <<>>
    /\ Len(SyncRun(gateHist, Len(gateHist)).calls) = GateCapacity

\* the handler of request id has gone on after `await throttler.canForward()`
Proceeded(id) == pc[id] \in {"post", "done"}

\* C33: the promise-chain lock never gets stuck.  Every call of canForward,
\* however many are queued, resolves with true or false, never with anything
\* else and never not at all; the handler that awaits it goes on to its
\* throttled or its forwarding branch; and the queue of waiting calls ends
\* up empty for good.
C33_LockNeverStuck ==
    /\ \A id \in Ids : (pc[id] = "lock") ~> Proceeded(id)
    /\ <>[](throttler.processing = <<>>)
    /\ [](\A id \in Ids :
             /\ GateDecided(id) =>
                    (canForward[id].kind = "bool" /\ canForward[id].value \in BOOLEAN)
             /\ Proceeded(id) => GateDecided(id)
             /\ pc[id] = "decided" => ENABLED ForwardDecide(id))

\* C33 witness: every request has called canForward, the window is full and
\* calls were rejected, no call waits any more and every handler has gone on.
C33_Witness ==
    /\ \A id \in Ids : Proceeded(id)
    /\ throttler.processing = <<>>
    /\ Len(gateHist) = NumReq
    /\ Rejections(gateHist) # {}

\* the handler of request id builds its 429 response in this step
Builds429(id) ==
    /\ forwardRes[id] = None
    /\ forwardRes'[id] # None
    /\ forwardRes'[id].status = 429

\* the requests answered 429 so far
Answered429 == {id \in Ids : Answered(id) /\ forwardRes[id].status = 429}

\* C34: the throttledCount in the body of a Gate 429 response is at least 1,
\* counts the request's own rejection and every earlier one, is the number of
\* rejections the Gate has decided when the response is built, not more, and
\* is not smaller than that of any 429 response built before.
C34_ThrottledCountInResponse ==
    /\ [][ (GateCall /\ ~Last(gateHist').ok) =>
               /\ throttler'.throttledCount = Cardinality(Rejections(gateHist'))
               /\ throttler'.throttledCount = throttler.throttledCount + 1
         ]_vars
    /\ [][throttler'.throttledCount >= throttler.throttledCount]_vars
    /\ [][ \A id \in Ids : Builds429(id) =>
               LET count == forwardRes'[id].data.throttledCount
               IN /\ GateRejected(id)
                  /\ count >= 1
                  /\ count = Cardinality(Rejections(gateHist))
                  /\ count <= Cardinality(Rejections(gateHist'))
                  /\ \A earlier \in Answered429 :
                         forwardRes[earlier].data.throttledCount <= count
         ]_vars
    /\ [](\A id \in Answered429 :
             /\ forwardRes[id].data.throttledCount >= 1
             /\ forwardRes[id].data.throttledCount <= throttler.throttledCount)

\* C34 witness: two requests were rejected before the handler of either went
\* on, and both were answered 429 with count 2: the first rejected of them
\* reports a rejection decided after its own.
C34_Witness ==
    /\ Cardinality(Answered429) = 2
    /\ \A id \in Answered429 : forwardRes[id].data.throttledCount = 2
    /\ \E id \in Ids : GateAdmitted(id) /\ Answered(id)

\* the record makeCall writes when the Gate answers with this status
RecordOnStatus(status) ==
    CallerRecord(1, Settle([status |-> status, data |-> None])).kind

\* the "Calling" records written so far, and the completion records
CallingRecords == CallsBefore(EpochBase, Len(driver.issued) + 1)
CompletionRecords == driver.received + driver.errors

\* makeCalls writes its "Completed N calls" record in this step
WritesCompleted == driver'.callId # driver.callId

\* C35: every call issued gets one "Calling" record and then exactly one
\* completion record, a "Received response" record only for a 2xx answer and
\* an "Error" record for a 429, a 500, a timeout or a failed connection,
\* never both and, with the timeouts firing, never neither; the "Completed N
\* calls" record of a minute is written only when all N calls of the minute
\* have their completion record.
C35_OneCompletionRecordPerCall ==
    /\ [](/\ CallingRecords = InFlight + CompletionRecords
          /\ \A status \in GateStatuses :
                 RecordOnStatus(status) =
                     (IF status >= 200 /\ status < 300 THEN "Received" ELSE "Error")
          /\ CallerRecord(1, NoResponse("timeout of 10000ms exceeded")).kind = "Error"
          /\ CallerRecord(1, NoResponse("connect ECONNREFUSED")).kind = "Error")
    /\ [][ (CompletionRecords' # CompletionRecords
                \/ driver'.received # driver.received) =>
               /\ InFlight > 0
               /\ ~WritesCompleted
               /\ InFlight' = InFlight - 1
               /\ \/ /\ driver'.received = driver.received + 1
                     /\ driver'.errors = driver.errors
                  \/ /\ driver'.received = driver.received
                     /\ driver'.errors = driver.errors + 1
         ]_vars
    /\ [][ WritesCompleted =>
               /\ InFlight = 0
               /\ CompletionRecords = CallingRecords
               /\ driver'.callId = driver.callId + EpochCalls(driver.minute)
               /\ CompletionRecords' = CompletionRecords
         ]_vars
    /\ (InFlight > 0) ~> (CompletionRecords = CallingRecords)

\* C35 witness: the second minute's "Completed" record has been written and
\* the run has finished; calls had waited for a socket, and there are both
\* "Received response" and "Error" records.
C35_Witness ==
    /\ driver.phase = "finished"
    /\ driver.callId = TotalCalls + 1
    /\ driver.received > 0
    /\ driver.errors > 0
    /\ CompletionRecords = TotalCalls

====
